---- MODULE Spec2Model ----
(***************************************************************************)
(* Model of the expense tracker's time-bucketing module                    *)
(* (frontend/src/utils/date.ts, imported as utils/timeBuckets), of the     *)
(* Insights component (frontend/src/components/Insights.tsx), of the       *)
(* Dashboard (unnamed/part_000) with its selection effects and controls,   *)
(* of the auth and data effects that Insights, Dashboard and ExpenseList   *)
(* share and of the forms of AddExpense and EditExpense.                   *)
(*                                                                         *)
(* Encoding of JavaScript values:                                          *)
(*  - a Date is [valid |-> TRUE, day, hour]: the host-local calendar day   *)
(*    (days since 1970-01-01) and local hour; the Invalid Date is          *)
(*    InvalidDate; null is Null.                                           *)
(*  - a number is [nan |-> BOOLEAN, v |-> Int]; amounts are whole units.   *)
(*  - a Record<string, number> is the sequence of its [key, val] entries   *)
(*    in insertion order.                                                  *)
(*  - a week label `${start} - ${end}, ${year}` is the triple              *)
(*    <<start, end, year>> of its three parts and the empty string is <<>>.*)
(***************************************************************************)
EXTENDS Integers, Sequences, FiniteSets, TLC

VARIABLES
    tz,             \* host offset from UTC in hours (local = UTC + tz)
    expenses,       \* Insights: useState<any[]>([]), the latest snapshot
    viewMode,       \* prop
    selectedWeek,   \* prop
    selectedMonth,  \* prop
    selectedYear,   \* prop
    insights,       \* Insights: useState<string[]>([])
    authUser,       \* the signed-in user of the auth service, or NoUser
    mounted,        \* per component: it is mounted
    userId,         \* per component: useState<string | null>(null)
    subs,           \* per component: the users whose query it listens to
    store,          \* the documents written by the add and the edit form
    form,           \* AddExpense: useState("") of amount and of category
    alerted,        \* the message of the latest alert(), "" before the first
    dashboardExpenses,  \* Dashboard: useState<any[]>([]), the latest snapshot
    selectedMonthYear   \* App: useState of the year of the line chart in month mode

vars == <<tz, expenses, viewMode, selectedWeek, selectedMonth, selectedYear, insights,
          authUser, mounted, userId, subs, store, form, alerted,
          dashboardExpenses, selectedMonthYear>>

\* The state of the add form.
formVars == <<form, alerted>>

\* The state that only the Dashboard reads.
dashboardVars == <<dashboardExpenses, selectedMonthYear>>

\* The state of the auth session, of the write path and of the Dashboard.
sessionVars == <<authUser, mounted, userId, subs, store, formVars, dashboardVars>>

----------------------------------------------------------------------------
(* Bounds *)

MaxLen == 2         \* records in a snapshot

NumDays == 35       \* consecutive days that the dates of SpecRange span

MaxYearLen == 3     \* records in a snapshot of SpecYears

MaxDocs == 2        \* documents in the store of SpecWrite

MaxTopLen == 3      \* records in a snapshot of SpecTop

MaxDashLen == 3     \* records in a snapshot of SpecDashboard

\* Host offsets from UTC, in hours.
TzOffsets == {-5, 8}

\* Stored timestamps, as the host-local day and hour they denote:
\* Mon 2025-12-22 09h, Mon 2025-12-29 03h, Fri 2026-01-02 21h.
Timestamps == {<<20444, 9>>, <<20451, 3>>, <<20455, 21>>}

\* Days that stored ISO date strings denote.
StringDays == {20451}

\* Values of a stored date field.
DateFields ==
    {[type |-> "null"], [type |-> "number", v |-> 20451]}
    \cup {[type |-> "timestamp", day |-> t[1], hour |-> t[2]] : t \in Timestamps}
    \cup {[type |-> "string", text |-> s] : s \in {"not a date"}}

\* Values of a stored amount field.
AmountFields ==
    {[type |-> "number", num |-> [nan |-> FALSE, v |-> n]] : n \in {-50, 0, 50, 100}}
    \cup {[type |-> "string", text |-> "abc"]}

CategoryFields == {"Food", ""}

Records == [date : DateFields, amount : AmountFields, category : CategoryFields]

ViewModes == {"week", "month", "year"}

----------------------------------------------------------------------------
(* Calendar arithmetic of the host's Date object (proleptic Gregorian). *)

MonthNames == <<"Jan","Feb","Mar","Apr","May","Jun","Jul","Aug","Sep","Oct","Nov","Dec">>

WeekdayNames == <<"Sunday","Monday","Tuesday","Wednesday","Thursday","Friday","Saturday">>

WeekdayShort == <<"Sun","Mon","Tue","Wed","Thu","Fri","Sat">>

\* The civil date of a day number is computed in steps: the 400-year era and
\* the day of the era (doe), the year of the era (yoe), the day of the year
\* counted from 1 March (doy), the month counted from March (mp).
YearOfEra(doe) == (doe - doe \div 1460 + doe \div 36524 - doe \div 146096) \div 365

DayOfYear(doe, yoe) == doe - (365 * yoe + yoe \div 4 - yoe \div 100)

MonthFromMarch(doy) == (5 * doy + 2) \div 153

CivilOfMonth(era, yoe, doy, mp) ==
    [y |-> yoe + era * 400 + (IF mp >= 10 THEN 1 ELSE 0),
     m |-> IF mp < 10 THEN mp + 3 ELSE mp - 9,
     d |-> doy - (153 * mp + 2) \div 5 + 1]

CivilOfDay(era, yoe, doy) == CivilOfMonth(era, yoe, doy, MonthFromMarch(doy))

CivilOfYear(era, doe, yoe) == CivilOfDay(era, yoe, DayOfYear(doe, yoe))

CivilOfEra(era, doe) == CivilOfYear(era, doe, YearOfEra(doe))

\* [y, m, d] of a day number (days since 1970-01-01), for day numbers >= 0.
Civil(z) == CivilOfEra((z + 719468) \div 146097, (z + 719468) % 146097)

\* Day number of the day doy (counted from 1 March) of the year yy.
DaysFromYearDay(yy, doy) ==
    (yy \div 400) * 146097
        + (yy % 400) * 365 + (yy % 400) \div 4 - (yy % 400) \div 100 + doy - 719468

\* Day number of a civil date (years from 1970 on).
DaysFromCivil(y, m, d) ==
    DaysFromYearDay(IF m <= 2 THEN y - 1 ELSE y,
                    (153 * (IF m > 2 THEN m - 3 ELSE m + 9) + 2) \div 5 + d - 1)

InvalidDate == [valid |-> FALSE]
Null == [null |-> TRUE]

IsDate(d) == "valid" \in DOMAIN d       \* a Date object: truthy, valid or not
IsValid(d) == IsDate(d) /\ d.valid

MkDate(day, hour) == [valid |-> TRUE, day |-> day, hour |-> hour]

\* Date.prototype.getDay(): 0 Sun ... 6 Sat (1970-01-01 was a Thursday).
getDay(d) == (d.day + 4) % 7

getFullYear(d) == Civil(d.day).y

\* d.getFullYear().toString(); NaN.toString() for the Invalid Date.
YearString(d) == IF d.valid THEN ToString(getFullYear(d)) ELSE "NaN"

\* toLocaleDateString("en-US", {month: "short", day: "numeric"})
MonthDayOf(c) == MonthNames[c.m] \o " " \o ToString(c.d)

MonthDayString(d) == IF d.valid THEN MonthDayOf(Civil(d.day)) ELSE "Invalid Date"

\* toLocaleDateString("en-US", {month: "short", year: "numeric"})
MonthYearOf(c) == MonthNames[c.m] \o " " \o ToString(c.y)

MonthYearString(d) == IF d.valid THEN MonthYearOf(Civil(d.day)) ELSE "Invalid Date"

\* toLocaleDateString("en-US", {month: "short"})
MonthString(d) ==
    IF d.valid THEN MonthNames[Civil(d.day).m] ELSE "Invalid Date"

\* toLocaleDateString("en-US", {weekday: "long"})
WeekdayString(d) ==
    IF d.valid THEN WeekdayNames[getDay(d) + 1] ELSE "Invalid Date"

\* toDateString(): one string per local calendar day.
DateStringOf(wd, c) ==
    WeekdayShort[wd + 1] \o " " \o MonthNames[c.m] \o " " \o ToString(c.d) \o " " \o ToString(c.y)

DateString(d) == IF d.valid THEN DateStringOf(getDay(d), Civil(d.day)) ELSE "Invalid Date"

Pad2(n) == IF n < 10 THEN "0" \o ToString(n) ELSE ToString(n)

\* "YYYY-MM-DD" of a day number.
ISODayOf(c) == ToString(c.y) \o "-" \o Pad2(c.m) \o "-" \o Pad2(c.d)

ISODay(day) == ISODayOf(Civil(day))

\* The UTC calendar day of a valid Date on a host at offset tz.
UTCDay(d) == d.day + ((d.hour - tz + 24) \div 24) - 1

\* d.toISOString().slice(0, 10) of a valid Date.
ISODateString(d) == ISODay(UTCDay(d))

----------------------------------------------------------------------------
(* Numbers *)

Num(v) == [nan |-> FALSE, v |-> v]
NaN == [nan |-> TRUE, v |-> 0]

Add(a, b) == IF a.nan \/ b.nan THEN NaN ELSE Num(a.v + b.v)

\* x || 0 for a number x: NaN and 0 are falsy.
OrZero(a) == IF a.nan THEN Num(0) ELSE a

\* Number(x) of a stored amount field.
ToNumber(raw) ==
    CASE raw.type = "number" -> raw.num
      [] raw.type = "string" -> IF raw.text = "50" THEN Num(50) ELSE NaN
      [] OTHER -> NaN

----------------------------------------------------------------------------
(* Record<string, number> as the sequence of its entries in insertion order *)

HasKey(m, k) == \E i \in 1..Len(m) : m[i].key = k

KeyIndex(m, k) == CHOOSE i \in 1..Len(m) : m[i].key = k

\* (m[k] || 0)
GetOrZero(m, k) == IF HasKey(m, k) THEN OrZero(m[KeyIndex(m, k)].val) ELSE Num(0)

\* m[k] = v
Put(m, k, v) ==
    IF HasKey(m, k)
    THEN [m EXCEPT ![KeyIndex(m, k)] = [key |-> k, val |-> v]]
    ELSE Append(m, [key |-> k, val |-> v])

Keys(m) == {m[i].key : i \in 1..Len(m)}

RECURSIVE SumNum(_)
\* reduce((a, b) => a + b, 0) over the values
SumNum(m) == IF m = <<>> THEN Num(0) ELSE Add(SumNum(SubSeq(m, 1, Len(m) - 1)), m[Len(m)].val)

----------------------------------------------------------------------------
(* utils/date.ts *)

\* new Date(text) for a stored string: an ISO date-only string denotes UTC
\* midnight of that day; anything else is the Invalid Date.
UTCMidnight(day) == MkDate(day + ((tz + 24) \div 24) - 1, (tz + 24) % 24)

NewDateFromString(text) ==
    IF \E day \in StringDays : ISODay(day) = text
    THEN UTCMidnight(CHOOSE day \in StringDays : ISODay(day) = text)
    ELSE InvalidDate

parseExpenseDate(exp) ==
    IF exp.date.type = "null" THEN Null
    ELSE IF exp.date.type = "timestamp" THEN MkDate(exp.date.day, exp.date.hour)
    ELSE IF exp.date.type = "string" THEN NewDateFromString(exp.date.text)
    ELSE Null

\* getMonday without the Sunday case of line 7: diff = 1 - day.
getMonday_NoSundayCase(date) ==
    IF ~date.valid THEN InvalidDate
    ELSE MkDate(date.day + 1 - getDay(date), 0)

getMonday(date) ==
    IF ~date.valid THEN InvalidDate
    ELSE MkDate(date.day + (IF getDay(date) = 0 THEN -6 ELSE 1) - getDay(date), 0)

\* Lines 17-18: end = start plus six days.
WeekEnd(start) == IF start.valid THEN MkDate(start.day + 6, 0) ELSE InvalidDate

\* Lines 20-26: the label of the week that starts at start.
WeekLabelFrom(start) ==
    <<MonthDayString(start), MonthDayString(WeekEnd(start)), YearString(start)>>

getWeekRangeLabel(date) == WeekLabelFrom(getMonday(date))

\* filterForPie with a test of line 90 that drops the Invalid Date as well.
PieKeeps_ValidOnly(d, mode, selWeek, selMonth, selYear) ==
    IF ~IsValid(d) THEN FALSE
    ELSE IF mode = "week" THEN getWeekRangeLabel(d) = selWeek
    ELSE IF mode = "month" THEN MonthYearString(d) = selMonth
    ELSE IF mode = "year" THEN YearString(d) = selYear
    ELSE TRUE

\* Filter predicates: Null is falsy, every Date object (valid or not) is truthy.
PieKeeps(d, mode, selWeek, selMonth, selYear) ==
    IF ~IsDate(d) THEN FALSE
    ELSE IF mode = "week" THEN getWeekRangeLabel(d) = selWeek
    ELSE IF mode = "month" THEN MonthYearString(d) = selMonth
    ELSE IF mode = "year" THEN YearString(d) = selYear
    ELSE TRUE

filterForPie(exps, mode, selWeek, selMonth, selYear) ==
    SelectSeq(exps, LAMBDA exp : PieKeeps(parseExpenseDate(exp), mode, selWeek, selMonth, selYear))

\* filterForLine with the month test of filterForPie in place of line 120.
LineKeeps_MonthOfPie(d, mode, selWeek, selMonthYear) ==
    IF ~IsDate(d) THEN FALSE
    ELSE IF mode = "week" THEN getWeekRangeLabel(d) = selWeek
    ELSE IF mode = "month" THEN MonthYearString(d) = selMonthYear
    ELSE TRUE

LineKeeps(d, mode, selWeek, selMonthYear) ==
    IF ~IsDate(d) THEN FALSE
    ELSE IF mode = "week" THEN getWeekRangeLabel(d) = selWeek
    ELSE IF mode = "month" THEN YearString(d) = selMonthYear
    ELSE TRUE

filterForLine(exps, mode, selWeek, selMonthYear) ==
    SelectSeq(exps, LAMBDA exp : LineKeeps(parseExpenseDate(exp), mode, selWeek, selMonthYear))

CategoryOf(exp) == IF exp.category = "" THEN "Uncategorized" ELSE exp.category

RECURSIVE buildCategoryTotals(_)
\* out[key] = (out[key] || 0) + amt
Accumulate(out, key, amt) == Put(out, key, Add(GetOrZero(out, key), amt))

buildCategoryTotals(exps) ==
    IF exps = <<>> THEN <<>>
    ELSE Accumulate(buildCategoryTotals(SubSeq(exps, 1, Len(exps) - 1)),
                    CategoryOf(exps[Len(exps)]),
                    OrZero(ToNumber(exps[Len(exps)].amount)))

\* The bucket key of a Date whose key computation does not throw.
DateKey(d, mode) ==
    IF mode = "week" THEN ISODateString(d)
    ELSE IF mode = "month" THEN MonthString(d)
    ELSE IF mode = "year" THEN YearString(d)
    ELSE ""

\* d.toISOString() throws a RangeError on the Invalid Date.
KeyRaises(d, mode) == mode = "week" /\ ~d.valid

RECURSIVE DateTotalsLoop(_, _)
\* The forEach of buildDateTotals: [raised, out], raised as soon as one
\* iteration throws.
\* Lines 146-156: one iteration of the forEach, from the result r of the
\* iterations before it.
DateTotalsStep(r, d, amount, mode) ==
    IF r.raised \/ ~IsDate(d) THEN r
    ELSE IF KeyRaises(d, mode) THEN [raised |-> TRUE, out |-> <<>>]
    ELSE [raised |-> FALSE, out |-> Accumulate(r.out, DateKey(d, mode), ToNumber(amount))]

DateTotalsLoop(exps, mode) ==
    IF exps = <<>> THEN [raised |-> FALSE, out |-> <<>>]
    ELSE DateTotalsStep(DateTotalsLoop(SubSeq(exps, 1, Len(exps) - 1), mode),
                        parseExpenseDate(exps[Len(exps)]), exps[Len(exps)].amount, mode)

\* Line 161: if (!(m in out)) out[m] = 0
FillMonth(out, m) == IF HasKey(out, m) THEN out ELSE Put(out, m, Num(0))

RECURSIVE FillMonths(_, _)
FillMonths(out, n) ==
    IF n = 0 THEN out ELSE FillMonth(FillMonths(out, n - 1), MonthNames[n])

\* Lines 159-163: the month fill after a forEach that did not throw.
FillIfMonth(r, mode) ==
    IF r.raised THEN r
    ELSE IF mode = "month" THEN [raised |-> FALSE, out |-> FillMonths(r.out, 12)]
    ELSE r

\* [raised, out]: out is the returned mapping when the call does not throw.
buildDateTotals(exps, mode) == FillIfMonth(DateTotalsLoop(exps, mode), mode)

----------------------------------------------------------------------------
(* Number rendering *)

Abs(n) == IF n < 0 THEN -n ELSE n

\* n / d rounded to the nearest integer, halves away from zero (d > 0).
RoundDiv(n, d) ==
    IF n < 0 THEN -((2 * Abs(n) + d) \div (2 * d)) ELSE (2 * Abs(n) + d) \div (2 * d)

\* The rendering of scaled / 10^digits with exactly `digits` decimals
\* (digits is 1 or 2).
FixedParts(negative, whole, frac, digits) ==
    (IF negative THEN "-" ELSE "") \o ToString(whole) \o "."
        \o (IF digits = 2 /\ frac < 10 THEN "0" ELSE "") \o ToString(frac)

FixedUnit(digits) == IF digits = 1 THEN 10 ELSE 100

FixedString(scaled, digits) ==
    FixedParts(scaled < 0, Abs(scaled) \div FixedUnit(digits),
               Abs(scaled) % FixedUnit(digits), digits)

\* x.toFixed(2) of a whole number x.
ToFixed2(x) == FixedString(x * 100, 2)

----------------------------------------------------------------------------
(* components/Insights.tsx: the analysis effect *)

\* Lines 70-89: the period filter.
InsightsKeeps(d, mode, selWeek, selMonth, selYear) ==
    IF mode = "week" /\ selWeek # <<>>
    THEN IsDate(d) /\ getWeekRangeLabel(d) = selWeek
    ELSE IF mode = "month" /\ selMonth # ""
    THEN IsDate(d) /\ MonthYearString(d) = selMonth
    ELSE IF mode = "year" /\ selYear # ""
    THEN IsDate(d) /\ YearString(d) = selYear
    ELSE FALSE

InsightsFilter(exps, mode, selWeek, selMonth, selYear) ==
    SelectSeq(exps, LAMBDA exp :
        InsightsKeeps(parseExpenseDate(exp), mode, selWeek, selMonth, selYear))

RECURSIVE TotalsBy(_, _)
\* Lines 101-113: one of the three maps filled by the forEach, keyed by
\* "date", "category" or "weekday".
\* Lines 102-112: one iteration of the forEach on the map keyed by what.
TotalsStep(out, exp, d, what) ==
    IF ~IsDate(d) THEN out
    ELSE Accumulate(out,
                    IF what = "date" THEN DateString(d)
                    ELSE IF what = "category" THEN CategoryOf(exp)
                    ELSE WeekdayString(d),
                    OrZero(ToNumber(exp.amount)))

TotalsBy(filtered, what) ==
    IF filtered = <<>> THEN <<>>
    ELSE TotalsStep(TotalsBy(SubSeq(filtered, 1, Len(filtered) - 1), what),
                    filtered[Len(filtered)], parseExpenseDate(filtered[Len(filtered)]), what)

\* Line 115
TotalSpent(filtered) == SumNum(TotalsBy(filtered, "date")).v

\* x || 1
OrOne(n) == IF n = 0 THEN 1 ELSE n

\* Line 116 counting the records instead of the keys of totalsByDate.
DaysCount_PerRecord(filtered) == OrOne(Len(filtered))

\* Line 116
DaysCount(filtered) == OrOne(Len(TotalsBy(filtered, "date")))

\* The years that a text names.
YearsNamed(yearStr) == {y \in 1970..2099 : ToString(y) = yearStr}

\* The canonical texts of whole numbers that occur as keys (the years).
IndexTexts == {ToString(y) : y \in 1970..2099}

\* A key that is the canonical text of a whole number.
IsIndexKey(k) == k \in IndexTexts

\* Number(k) of a key.
KeyNumber(k) == IF IsIndexKey(k) THEN Num(CHOOSE y \in YearsNamed(k) : TRUE) ELSE NaN

RECURSIVE AscendingTexts(_)
\* The texts of a set of whole numbers, smallest first.
AscendingTexts(ns) ==
    IF ns = {} THEN <<>>
    ELSE <<ToString(CHOOSE n \in ns : \A o \in ns : n <= o)>>
            \o AscendingTexts(ns \ {CHOOSE n \in ns : \A o \in ns : n <= o})

KeySeq(m) == [i \in 1..Len(m) |-> m[i].key]

\* Object.keys(obj): the whole-number keys in ascending order, then the other
\* keys in insertion order.
ObjectKeys(m) ==
    AscendingTexts({KeyNumber(m[i].key).v : i \in {j \in 1..Len(m) : IsIndexKey(m[j].key)}})
        \o SelectSeq(KeySeq(m), LAMBDA k : ~IsIndexKey(k))

\* The entries of m in the order of the list ks of its keys.
EntriesOf(m, ks) == [i \in 1..Len(ks) |-> m[KeyIndex(m, ks[i])]]

\* Object.entries(m): the entries in the order of Object.keys(m).
ObjectEntries(m) == EntriesOf(m, ObjectKeys(m))

\* sort((a, b) => b[1] - a[1])[0] of a list of entries: the sort is stable,
\* so the first entry with the highest total.
FirstHighest(es) ==
    es[CHOOSE i \in 1..Len(es) :
        /\ \A j \in 1..Len(es) : es[j].val.v <= es[i].val.v
        /\ \A j \in 1..(i - 1) : es[j].val.v < es[i].val.v]

\* Lines 119-120: Object.entries(m).sort((a, b) => b[1] - a[1])[0]
TopEntry(m) == FirstHighest(ObjectEntries(m))

\* Line 127: new Date(`${startPart}, ${yearStr}`), local midnight of the
\* month, day and year that the text names.
\* The month-day pairs that a text names.
MonthDaysNamed(startPart) ==
    {p \in (1..12) \X (1..31) : MonthNames[p[1]] \o " " \o ToString(p[2]) = startPart}

LocalMidnight(y, p) == MkDate(DaysFromCivil(y, p[1], p[2]), 0)

NewDateFromLabelStart(startPart, yearStr) ==
    IF MonthDaysNamed(startPart) = {} \/ YearsNamed(yearStr) = {} THEN InvalidDate
    ELSE LocalMidnight(CHOOSE y \in YearsNamed(yearStr) : TRUE,
                       CHOOSE p \in MonthDaysNamed(startPart) : TRUE)

\* Lines 128-129: setDate(getDate() - 7)
SevenDaysBefore(d) == IF d.valid THEN MkDate(d.day - 7, 0) ELSE InvalidDate

\* Lines 125-131: split(","), split("-")[0], new Date, setDate(-7), label.
PrevLabel(selWeek) ==
    getWeekRangeLabel(SevenDaysBefore(NewDateFromLabelStart(selWeek[1], selWeek[3])))

RECURSIVE SumAmounts(_)
\* reduce((sum, e) => sum + (Number(e.amount) || 0), 0)
SumAmounts(exps) ==
    IF exps = <<>> THEN 0
    ELSE SumAmounts(SubSeq(exps, 1, Len(exps) - 1))
            + OrZero(ToNumber(exps[Len(exps)].amount)).v

\* Lines 133-137
\* Lines 133-136: the filter for the records of the previous week.
InWeek(d, label) == IsDate(d) /\ getWeekRangeLabel(d) = label

PrevExpenses(exps, prevLabel) ==
    SelectSeq(exps, LAMBDA exp : InWeek(parseExpenseDate(exp), prevLabel))

PrevTotal(exps, selWeek) == SumAmounts(PrevExpenses(exps, PrevLabel(selWeek)))

\* Lines 143-150 with prevTotal # 0: pct = (diff / prevTotal) * 100, rendered
\* with one decimal.
ChangeText(diff, prevTotal) ==
    IF diff = 0
    THEN [kind |-> "wow", text |-> "Same as last week."]
    ELSE IF (diff > 0 /\ prevTotal > 0) \/ (diff < 0 /\ prevTotal < 0)
    THEN [kind |-> "wow", text |-> "Up "
            \o FixedString(RoundDiv(Abs(diff) * 1000, Abs(prevTotal)), 1) \o "% vs last week."]
    ELSE [kind |-> "wow", text |-> "Down "
            \o FixedString(RoundDiv(Abs(diff) * 1000, Abs(prevTotal)), 1) \o "% vs last week."]

\* Lines 139-151. With prevTotal = 0 the quotient of line 144 is an infinity
\* (or NaN), which toFixed renders as "Infinity".
PrevChangeText(prevTotal, totalSpent) ==
    IF prevTotal = 0 /\ totalSpent = 0
    THEN [kind |-> "wow", text |-> "Spending is steady compared to last week."]
    ELSE IF prevTotal = 0 /\ totalSpent > 0
    THEN [kind |-> "wow", text |-> "You started spending this week (no spend last week)."]
    ELSE IF prevTotal = 0
    THEN [kind |-> "wow", text |-> "Down Infinity% vs last week."]
    ELSE ChangeText(totalSpent - prevTotal, prevTotal)

AllWeekdays == <<"Monday", "Tuesday", "Wednesday", "Thursday", "Friday", "Saturday", "Sunday">>

\* Line 173 as a test of absence: allWeekdays.filter((w) => !(w in totalsByWeekday))
NoSpendDays_AbsentOnly(totalsByWeekday) ==
    SelectSeq(AllWeekdays, LAMBDA w : ~HasKey(totalsByWeekday, w))

\* Line 173: allWeekdays.filter((w) => !totalsByWeekday[w])
NoSpendDays(totalsByWeekday) ==
    SelectSeq(AllWeekdays, LAMBDA w :
        ~HasKey(totalsByWeekday, w) \/ GetOrZero(totalsByWeekday, w).v = 0)

RECURSIVE Join(_)
\* join(", ")
Join(ss) ==
    IF ss = <<>> THEN ""
    ELSE IF Len(ss) = 1 THEN ss[1]
    ELSE Join(SubSeq(ss, 1, Len(ss) - 1)) \o ", " \o ss[Len(ss)]

WeekLabelString(l) == l[1] \o " - " \o l[2] \o ", " \o l[3]

\* The effect without the guard of line 59.
NoDataGuard_Missing(exps) == FALSE

\* Line 59
NoDataGuard(exps) == Len(exps) = 0

\* The guard of line 64 without its test of the view mode.
MissingSelectionGuard_AnyMode(mode, selWeek) == selWeek = <<>>

\* Line 64
MissingSelectionGuard(mode, selWeek) == mode = "week" /\ selWeek = <<>>

\* Lines 58-180: the list that the effect passes to setInsights. A statement
\* is [kind, text]; the text leaves out the pictograph that starts it.
\* Lines 156-158
SnapshotStatement(mode, selWeek, selMonth, selYear) ==
    IF mode = "week" /\ selWeek # <<>>
    THEN << [kind |-> "snapshot", text |->
              "Weekly snapshot for <b>" \o WeekLabelString(selWeek) \o "</b>"] >>
    ELSE IF mode = "month" /\ selMonth # ""
    THEN << [kind |-> "snapshot", text |->
              "Monthly snapshot for <b>" \o selMonth \o "</b>"] >>
    ELSE IF mode = "year" /\ selYear # ""
    THEN << [kind |-> "snapshot", text |->
              "Yearly snapshot for <b>" \o selYear \o "</b>"] >>
    ELSE << >>

\* Lines 160-167
BodyStatements(topCategory, topDay, totalSpent, daysCount) ==
    << [kind |-> "topCategory", text |-> "Top category: <b>" \o topCategory.key
            \o "</b> (RM " \o ToFixed2(topCategory.val.v) \o ")."],
       [kind |-> "topDay", text |-> "Busiest day: <b>" \o topDay.key
            \o "</b> (RM " \o ToFixed2(topDay.val.v) \o ")."],
       [kind |-> "total", text |-> "Total spent: <b>RM " \o ToFixed2(totalSpent) \o "</b>."],
       [kind |-> "average", text |-> "Average per day: <b>RM "
            \o FixedString(RoundDiv(totalSpent * 100, daysCount), 2) \o "</b>."] >>

\* Lines 123-152 and 170: the week-over-week statement, week mode only.
PrevChangeStatement(exps, mode, selWeek, totalSpent) ==
    IF mode = "week" THEN << PrevChangeText(PrevTotal(exps, selWeek), totalSpent) >> ELSE << >>

\* Lines 172-178
NoSpendStatement(mode, noSpendDays) ==
    IF mode = "week" /\ Len(noSpendDays) > 0
    THEN << [kind |-> "noSpend", text |-> "No-spend days: <b>" \o Join(noSpendDays) \o "</b>."] >>
    ELSE << >>

\* Lines 154-177 with the no-spend statement pushed before the week-over-week
\* statement.
Statements_NoSpendFirst(exps, mode, selWeek, selMonth, selYear, totalsByCategory, totalsByWeekday, totalSpent, daysCount) ==
    SnapshotStatement(mode, selWeek, selMonth, selYear)
        \o BodyStatements(TopEntry(totalsByCategory), TopEntry(totalsByWeekday),
                          totalSpent, daysCount)
        \o NoSpendStatement(mode, NoSpendDays(totalsByWeekday))
        \o PrevChangeStatement(exps, mode, selWeek, totalSpent)

\* Lines 97-177: the statements for a non-empty filtered list.
Statements(exps, mode, selWeek, selMonth, selYear, totalsByCategory, totalsByWeekday, totalSpent, daysCount) ==
    SnapshotStatement(mode, selWeek, selMonth, selYear)
        \o BodyStatements(TopEntry(totalsByCategory), TopEntry(totalsByWeekday),
                          totalSpent, daysCount)
        \o PrevChangeStatement(exps, mode, selWeek, totalSpent)
        \o NoSpendStatement(mode, NoSpendDays(totalsByWeekday))

\* Lines 91-177: the effect after its filter.
AnalyzeFiltered(exps, mode, selWeek, selMonth, selYear, filtered) ==
    IF Len(filtered) = 0
    THEN << [kind |-> "noPeriodData",
             text |-> "No " \o mode \o " data available for the selected period."] >>
    ELSE Statements(exps, mode, selWeek, selMonth, selYear,
                    TotalsBy(filtered, "category"), TotalsBy(filtered, "weekday"),
                    TotalSpent(filtered), DaysCount(filtered))

BuildInsights(exps, mode, selWeek, selMonth, selYear) ==
    IF NoDataGuard(exps)
    THEN << [kind |-> "noData", text |-> "No data yet to analyze your spending."] >>
    ELSE IF MissingSelectionGuard(mode, selWeek)
    THEN << [kind |-> "selectWeek", text |-> "Select a week to see insights."] >>
    ELSE AnalyzeFiltered(exps, mode, selWeek, selMonth, selYear,
                         InsightsFilter(exps, mode, selWeek, selMonth, selYear))

----------------------------------------------------------------------------
(* utils/date.ts: sortXAxisKeys *)

\* a - b
Sub(a, b) == IF a.nan \/ b.nan THEN NaN ELSE Num(a.v - b.v)

\* order.indexOf(k)
MonthIndexOf(k) ==
    IF \E i \in 1..12 : MonthNames[i] = k
    THEN (CHOOSE i \in 1..12 : MonthNames[i] = k) - 1
    ELSE -1

\* The days that an ISO date text names, among the days of DayNumbers.
DayNumbers == (DaysFromCivil(2025, 12, 15) - 1) .. (DaysFromCivil(2025, 12, 15) + NumDays)

DatesNamed(k) == {d \in DayNumbers : ISODay(d) = k}

\* new Date(k).getTime(), in days.
KeyTime(k) == IF DatesNamed(k) = {} THEN NaN ELSE Num(CHOOSE d \in DatesNamed(k) : TRUE)

\* The comparator of line 176 with its operands exchanged.
Compare_YearReversed(mode, a, b) ==
    IF mode = "month" THEN Num(MonthIndexOf(a) - MonthIndexOf(b))
    ELSE IF mode = "year" THEN Sub(KeyNumber(b), KeyNumber(a))
    ELSE Sub(KeyTime(a), KeyTime(b))

\* Lines 172, 176, 178: the comparator of each view mode.
Compare(mode, a, b) ==
    IF mode = "month" THEN Num(MonthIndexOf(a) - MonthIndexOf(b))
    ELSE IF mode = "year" THEN Sub(KeyNumber(a), KeyNumber(b))
    ELSE Sub(KeyTime(a), KeyTime(b))

\* Array.prototype.sort takes a comparator result of NaN as +0; a may stay
\* before b when the result is not positive.
InOrder(mode, a, b) == OrZero(Compare(mode, a, b)).v <= 0

\* The place of k in a sorted list: behind the last entry that may stay
\* before it (the sort is stable).
InsertPos(mode, sorted, k) ==
    CHOOSE p \in 0..Len(sorted) :
        /\ p = 0 \/ InOrder(mode, sorted[p], k)
        /\ \A i \in (p + 1)..Len(sorted) : ~InOrder(mode, sorted[i], k)

InsertKey(sorted, p, k) == SubSeq(sorted, 1, p) \o <<k>> \o SubSeq(sorted, p + 1, Len(sorted))

InsertSorted(mode, sorted, k) == InsertKey(sorted, InsertPos(mode, sorted, k), k)

RECURSIVE SortKeys(_, _)
SortKeys(mode, ks) ==
    IF ks = <<>> THEN <<>>
    ELSE InsertSorted(mode, SortKeys(mode, SubSeq(ks, 1, Len(ks) - 1)), ks[Len(ks)])

\* sortXAxisKeys without its sort: the keys as Object.keys lists them.
sortXAxisKeys_KeyOrder(mode, obj) == ObjectKeys(obj)

sortXAxisKeys(mode, obj) == SortKeys(mode, ObjectKeys(obj))

----------------------------------------------------------------------------
(* The record list delivered by the store: the query orders by date, and    *)
(* the store orders values of different types null < number < timestamp <   *)
(* string.                                                                  *)

DateRank(f) ==
    CASE f.type = "null" -> 0
      [] f.type = "number" -> 1
      [] f.type = "timestamp" -> 2
      [] OTHER -> 3

\* a may precede b in a snapshot ordered by date ascending
MayPrecede(a, b) ==
    \/ DateRank(a.date) < DateRank(b.date)
    \/ /\ DateRank(a.date) = DateRank(b.date)
       /\ a.date.type = "timestamp" =>
              (a.date.day * 24 + a.date.hour <= b.date.day * 24 + b.date.hour)

OrderedByDate(exps) == \A i \in 1..(Len(exps) - 1) : MayPrecede(exps[i], exps[i + 1])

InsertAt(exps, i, rec) == SubSeq(exps, 1, i - 1) \o <<rec>> \o SubSeq(exps, i, Len(exps))

RemoveAt(exps, i) == SubSeq(exps, 1, i - 1) \o SubSeq(exps, i + 1, Len(exps))

----------------------------------------------------------------------------
(* Selections that the props can carry *)

WeekLabels ==
    {<<>>, <<"Invalid Date", "Invalid Date", "NaN">>}
    \cup {getWeekRangeLabel(MkDate(t[1], t[2])) : t \in {<<20451, 3>>}}

MonthLabels == {"", "Dec 2025", "Invalid Date"}

YearLabels == {"", "2025", "NaN"}

----------------------------------------------------------------------------
(* The auth effect and the data effect of Insights (lines 37-55), Dashboard *)
(* (part_000 lines 288-308) and ExpenseList (lines 36-62).                  *)

Components == {"Insights", "Dashboard", "ExpenseList"}

Users == {"alice", "bob"}

NoUser == "none"

\* The component has a registered onSnapshot listener.
Subscribed(c) == subs[c] # {}

\* A data effect whose cleanup does not unsubscribe.
Cleanup_Missing(s, uid) == s

\* The cleanup of the data effect that ran with userId = uid: the unsubscribe
\* function that onSnapshot returned; nothing when that run returned early.
Cleanup(s, uid) == s \ {uid}

\* The data effect with userId = uid: if (!userId) return; onSnapshot(q, ...)
DataEffect(s, uid) == IF uid = NoUser THEN s ELSE s \cup {uid}

----------------------------------------------------------------------------
(* State machine of the Insights component *)

\* Records used where the props vary as well.
InsightRecords ==
    {r \in Records : r.date.type # "number" /\ r.amount.type = "number" /\ r.category = "Food"}

\* The analysis effect reading the props of the render before.
Analyze_StaleProps ==
    insights' = BuildInsights(expenses', viewMode, selectedWeek, selectedMonth, selectedYear)

\* The analysis effect (lines 58-180) runs after every render in which one of
\* expenses, viewMode, selectedWeek, selectedMonth, selectedYear changed.
Analyze ==
    insights' = BuildInsights(expenses', viewMode', selectedWeek', selectedMonth', selectedYear')

\* After mount: App passes viewMode "month", no week, no month and the current
\* year; the effect has run once on the empty list.
InitProps ==
    /\ expenses = <<>>
    /\ viewMode = "month"
    /\ selectedWeek = <<>>
    /\ selectedMonth = ""
    /\ selectedYear = "2025"
    /\ selectedMonthYear = "2025"
    /\ dashboardExpenses = <<>>
    /\ insights = BuildInsights(expenses, viewMode, selectedWeek, selectedMonth, selectedYear)

\* onSnapshot callback (lines 51-54) after a document was added to the store,
\* followed by the analysis effect.
SnapshotAdded(recs, max) ==
    /\ Subscribed("Insights")
    /\ Len(expenses) < max
    /\ \E rec \in recs, i \in 1..(Len(expenses) + 1) :
          /\ OrderedByDate(InsertAt(expenses, i, rec))
          /\ expenses' = InsertAt(expenses, i, rec)
    /\ UNCHANGED <<tz, viewMode, selectedWeek, selectedMonth, selectedYear>>
    /\ UNCHANGED sessionVars
    /\ Analyze

\* onSnapshot callback after a document was deleted from the store.
SnapshotRemoved ==
    /\ Subscribed("Insights")
    /\ \E i \in 1..Len(expenses) : expenses' = RemoveAt(expenses, i)
    /\ UNCHANGED <<tz, viewMode, selectedWeek, selectedMonth, selectedYear>>
    /\ UNCHANGED sessionVars
    /\ Analyze

\* onSnapshot callback after a document's amount and category were updated.
SnapshotModified(recs) ==
    /\ Subscribed("Insights")
    /\ \E i \in 1..Len(expenses), r \in recs :
          /\ r.date = expenses[i].date
          /\ expenses' = [expenses EXCEPT ![i] = r]
    /\ UNCHANGED <<tz, viewMode, selectedWeek, selectedMonth, selectedYear>>
    /\ UNCHANGED sessionVars
    /\ Analyze

SetViewMode ==
    /\ \E m \in ViewModes : viewMode' = m
    /\ UNCHANGED <<tz, expenses, selectedWeek, selectedMonth, selectedYear>>
    /\ UNCHANGED sessionVars
    /\ Analyze

SetSelectedWeek ==
    /\ \E w \in WeekLabels : selectedWeek' = w
    /\ UNCHANGED <<tz, expenses, viewMode, selectedMonth, selectedYear>>
    /\ UNCHANGED sessionVars
    /\ Analyze

SetSelectedMonth ==
    /\ \E m \in MonthLabels : selectedMonth' = m
    /\ UNCHANGED <<tz, expenses, viewMode, selectedWeek, selectedYear>>
    /\ UNCHANGED sessionVars
    /\ Analyze

SetSelectedYear ==
    /\ \E y \in YearLabels : selectedYear' = y
    /\ UNCHANGED <<tz, expenses, viewMode, selectedWeek, selectedMonth>>
    /\ UNCHANGED sessionVars
    /\ Analyze

\* AddExpense after mount (lines 14-15): empty fields, no alert shown.
EmptyForm ==
    /\ form = [amount |-> "", category |-> ""]
    /\ alerted = ""

\* The analysis effect reads no UTC field of a Date: one host offset.
\* Every component is mounted and listens to the query of the signed-in user.
SignedIn ==
    /\ authUser = "alice"
    /\ mounted = [c \in Components |-> TRUE]
    /\ userId = [c \in Components |-> "alice"]
    /\ subs = [c \in Components |-> {"alice"}]
    /\ store = <<>>
    /\ EmptyForm

Init == tz = 8 /\ InitProps /\ SignedIn

Next ==
    \/ SnapshotAdded(InsightRecords, MaxLen)
    \/ SnapshotRemoved
    \/ SnapshotModified(InsightRecords)
    \/ SetViewMode
    \/ SetSelectedWeek
    \/ SetSelectedMonth
    \/ SetSelectedYear

Spec == Init /\ [][Next]_vars

\* The aggregation functions applied to every snapshot of stored records, on
\* hosts east and west of UTC, with the props left as mounted.
InitAgg == tz \in TzOffsets /\ InitProps /\ SignedIn

NextAgg ==
    \/ SnapshotAdded(Records, MaxLen)
    \/ SnapshotRemoved
    \/ SnapshotModified(Records)

SpecAgg == InitAgg /\ [][NextAgg]_vars

\* Snapshots of records dated on any of NumDays consecutive days from
\* Mon 2025-12-15, early and late in the day.
DayRange == DaysFromCivil(2025, 12, 15) .. (DaysFromCivil(2025, 12, 15) + NumDays - 1)

RangeRecords ==
    {[date |-> [type |-> "timestamp", day |-> d, hour |-> h],
      amount |-> [type |-> "number", num |-> Num(50)],
      category |-> "Food"] : d \in DayRange, h \in {0, 23}}

NextRange ==
    \/ SnapshotAdded(RangeRecords, MaxLen)
    \/ SnapshotRemoved

SpecRange == InitAgg /\ [][NextRange]_vars

\* Snapshots with up to one record on each day of the week of Mon 2025-12-29,
\* of zero or non-zero amount, under every view mode and week selection.
WeekdayRecords ==
    {[date |-> [type |-> "timestamp", day |-> d, hour |-> 12],
      amount |-> [type |-> "number", num |-> Num(n)],
      category |-> "Food"] :
        d \in DaysFromCivil(2025, 12, 29) .. (DaysFromCivil(2025, 12, 29) + 6), n \in {0, 50}}

\* onSnapshot callback after a document dated on a day without one was added.
SnapshotAddedNewDay(recs) ==
    /\ Subscribed("Insights")
    /\ \E rec \in recs, i \in 1..(Len(expenses) + 1) :
          /\ \A j \in 1..Len(expenses) : expenses[j].date # rec.date
          /\ OrderedByDate(InsertAt(expenses, i, rec))
          /\ expenses' = InsertAt(expenses, i, rec)
    /\ UNCHANGED <<tz, viewMode, selectedWeek, selectedMonth, selectedYear>>
    /\ UNCHANGED sessionVars
    /\ Analyze

NextWeekdays ==
    \/ SnapshotAddedNewDay(WeekdayRecords)
    \/ SnapshotRemoved
    \/ SetViewMode
    \/ SetSelectedWeek

SpecWeekdays == Init /\ [][NextWeekdays]_vars

\* Snapshots of up to MaxYearLen records dated in Dec 2024, Dec 2025 and
\* Jan 2026 or by a text that is no date, on hosts east and west of UTC.
YearRecords ==
    {[date |-> f, amount |-> [type |-> "number", num |-> Num(n)], category |-> "Food"] :
        f \in {[type |-> "timestamp", day |-> d, hour |-> 12] :
                    d \in {DaysFromCivil(2024, 12, 10), DaysFromCivil(2025, 12, 10),
                           DaysFromCivil(2026, 1, 10)}}
               \cup {[type |-> "string", text |-> "not a date"]},
        n \in {50, 100}}

NextYears ==
    \/ SnapshotAdded(YearRecords, MaxYearLen)
    \/ SnapshotRemoved

SpecYears == InitAgg /\ [][NextYears]_vars

\* Snapshots of up to MaxTopLen records of Mon 2025-12-29 and Tue 2025-12-30
\* in categories of the add form and in one typed into the edit form, with
\* amounts that tie, under every month selection.
TopRecords ==
    {[date |-> [type |-> "timestamp", day |-> d, hour |-> 12],
      amount |-> [type |-> "number", num |-> Num(n)],
      category |-> c] :
        d \in {DaysFromCivil(2025, 12, 29), DaysFromCivil(2025, 12, 30)},
        n \in {50, 100}, c \in {"Food", "Transport", "2025"}}

NextTop ==
    \/ SnapshotAdded(TopRecords, MaxTopLen)
    \/ SnapshotRemoved
    \/ SnapshotModified(TopRecords)
    \/ SetSelectedMonth

SpecTop == Init /\ [][NextTop]_vars

----------------------------------------------------------------------------
(* Mounting, signing in and out, and the auth callback of each component *)

\* React mounts the component: userId starts as null, the data effect
\* returns early; Insights starts from the empty list.
Mount(c) ==
    /\ ~mounted[c]
    /\ mounted' = [mounted EXCEPT ![c] = TRUE]
    /\ userId' = [userId EXCEPT ![c] = NoUser]
    /\ subs' = [subs EXCEPT ![c] = DataEffect(subs[c], NoUser)]
    /\ expenses' = IF c = "Insights" THEN <<>> ELSE expenses
    /\ dashboardExpenses' = IF c = "Dashboard" THEN <<>> ELSE dashboardExpenses
    /\ UNCHANGED <<tz, viewMode, selectedWeek, selectedMonth, selectedYear, authUser, store,
                   selectedMonthYear, formVars>>
    /\ Analyze

\* React unmounts the component: the cleanup of each effect runs.
Unmount(c) ==
    /\ mounted[c]
    /\ mounted' = [mounted EXCEPT ![c] = FALSE]
    /\ userId' = [userId EXCEPT ![c] = NoUser]
    /\ subs' = [subs EXCEPT ![c] = Cleanup(subs[c], userId[c])]
    /\ UNCHANGED <<tz, expenses, viewMode, selectedWeek, selectedMonth, selectedYear,
                   insights, authUser, store, formVars, dashboardVars>>

SignIn ==
    /\ authUser = NoUser
    /\ \E u \in Users : authUser' = u
    /\ UNCHANGED <<tz, expenses, viewMode, selectedWeek, selectedMonth, selectedYear,
                   insights, mounted, userId, subs, store, formVars, dashboardVars>>

SignOut ==
    /\ authUser # NoUser
    /\ authUser' = NoUser
    /\ UNCHANGED <<tz, expenses, viewMode, selectedWeek, selectedMonth, selectedYear,
                   insights, mounted, userId, subs, store, formVars, dashboardVars>>

\* The onAuthStateChanged callback of a mounted component: setUserId, then
\* the cleanup of the data effect that ran with the old userId and the data
\* effect with the new one.
AuthStateChanged(c) ==
    /\ mounted[c]
    /\ userId[c] # authUser
    /\ userId' = [userId EXCEPT ![c] = authUser]
    /\ subs' = [subs EXCEPT ![c] = DataEffect(Cleanup(subs[c], userId[c]), authUser)]
    /\ UNCHANGED <<tz, expenses, viewMode, selectedWeek, selectedMonth, selectedYear,
                   insights, authUser, mounted, store, formVars, dashboardVars>>

\* Nothing is mounted and nobody is signed in.
SignedOut ==
    /\ authUser = NoUser
    /\ mounted = [c \in Components |-> FALSE]
    /\ userId = [c \in Components |-> NoUser]
    /\ subs = [c \in Components |-> {}]
    /\ store = <<>>
    /\ EmptyForm

InitSession == tz = 8 /\ InitProps /\ SignedOut

\* Records of the snapshots of SpecSession.
SessionRecords == {r \in InsightRecords : r.date.type = "timestamp" /\ r.amount.num.v = 50}

NextSession ==
    \/ \E c \in Components : Mount(c)
    \/ \E c \in Components : Unmount(c)
    \/ SignIn
    \/ SignOut
    \/ \E c \in Components : AuthStateChanged(c)
    \/ SnapshotAdded(SessionRecords, 1)
    \/ SnapshotRemoved

SpecSession == InitSession /\ [][NextSession]_vars

----------------------------------------------------------------------------
(* The write path: AddExpense.handleSubmit, EditExpense.handleUpdate,       *)
(* ExpenseList.handleDelete                                                 *)

\* The values of the options of the category select of the add form.
Categories ==
    {"Food", "Transport", "Entertainment", "Households", "Bills", "Shopping",
     "Electronics", "Others"}

SelectOptions == {""} \cup Categories

\* Texts of the category input of the edit form.
CategoryTexts == {"", "Food", "Pets"}

\* Values of an input of type number.
AmountTexts == {"", "0", "50", "-5"}

\* Number(text)
NumberOf(text) ==
    CASE text = "" -> Num(0)
      [] text = "0" -> Num(0)
      [] text = "50" -> Num(50)
      [] text = "-5" -> Num(-5)
      [] OTHER -> NaN

\* parseFloat(text)
ParseFloat(text) == IF text = "" THEN NaN ELSE NumberOf(text)

\* The options of the category select that the add form is given here.
FormOptions == {"", "Food", "Others"}

\* AddExpense: onChange of the amount input (line 76).
SetAmount(text) ==
    /\ form' = [form EXCEPT !.amount = text]
    /\ UNCHANGED <<tz, expenses, viewMode, selectedWeek, selectedMonth, selectedYear,
                   insights, authUser, mounted, userId, subs, store, alerted, dashboardVars>>

\* AddExpense: onChange of the category select (line 88).
SetCategory(option) ==
    /\ form' = [form EXCEPT !.category = option]
    /\ UNCHANGED <<tz, expenses, viewMode, selectedWeek, selectedMonth, selectedYear,
                   insights, authUser, mounted, userId, subs, store, alerted, dashboardVars>>

\* Lines 35-48 with the uid of another account in the document.
AddDoc_OtherOwner ==
    /\ store' = Append(store, [userId |-> CHOOSE u \in Users : u # authUser,
                               amount |-> [type |-> "number", num |-> NumberOf(form.amount)],
                               category |-> form.category])
    /\ form' = [amount |-> "", category |-> ""]
    /\ alerted' = "Expense added!"

\* Lines 35-48: addDoc with the uid of auth.currentUser, the reset of the
\* fields and the alert.
AddDoc ==
    /\ store' = Append(store, [userId |-> authUser,
                               amount |-> [type |-> "number", num |-> NumberOf(form.amount)],
                               category |-> form.category])
    /\ form' = [amount |-> "", category |-> ""]
    /\ alerted' = "Expense added!"

\* AddExpense.handleSubmit (lines 29-49) on the form state.
HandleSubmit ==
    /\ IF authUser = NoUser
       THEN alerted' = "You must be logged in!" /\ UNCHANGED <<store, form>>
       ELSE IF form.amount = "" \/ form.category = ""
       THEN alerted' = "Amount and category required!" /\ UNCHANGED <<store, form>>
       ELSE Len(store) < MaxDocs /\ AddDoc
    /\ UNCHANGED <<tz, expenses, viewMode, selectedWeek, selectedMonth, selectedYear,
                   insights, authUser, mounted, userId, subs, dashboardVars>>

\* EditExpense.handleUpdate on the document at i with the form state amount,
\* category; both inputs are required.
HandleUpdate(i, amount, category) ==
    /\ amount # "" /\ category # ""
    /\ store' = [store EXCEPT ![i] = [userId |-> store[i].userId,
                                      amount |-> [type |-> "number", num |-> ParseFloat(amount)],
                                      category |-> category]]
    /\ UNCHANGED <<tz, expenses, viewMode, selectedWeek, selectedMonth, selectedYear,
                   insights, authUser, mounted, userId, subs, formVars, dashboardVars>>

\* ExpenseList.handleDelete on the document at i.
HandleDelete(i) ==
    /\ store' = RemoveAt(store, i)
    /\ UNCHANGED <<tz, expenses, viewMode, selectedWeek, selectedMonth, selectedYear,
                   insights, authUser, mounted, userId, subs, formVars, dashboardVars>>

NextWrite ==
    \/ SignIn
    \/ SignOut
    \/ \E a \in AmountTexts : SetAmount(a)
    \/ \E c \in FormOptions : SetCategory(c)
    \/ HandleSubmit
    \/ \E i \in 1..Len(store), a \in AmountTexts, c \in CategoryTexts : HandleUpdate(i, a, c)
    \/ \E i \in 1..Len(store) : HandleDelete(i)

SpecWrite == InitSession /\ [][NextWrite]_vars

\* The add form next to the auth and data effects of the Dashboard, with
\* users signing in and out.
NextScope ==
    \/ Mount("Dashboard")
    \/ Unmount("Dashboard")
    \/ SignIn
    \/ SignOut
    \/ AuthStateChanged("Dashboard")
    \/ \E a \in AmountTexts : SetAmount(a)
    \/ \E c \in FormOptions : SetCategory(c)
    \/ HandleSubmit

SpecScope == InitSession /\ [][NextScope]_vars

----------------------------------------------------------------------------
(* The Dashboard (unnamed/part_000): its option lists, its selection        *)
(* effects and its controls                                                 *)

\* String(new Date().getFullYear()) at the time of the model.
CurrentYear == "2025"

\* The members of a list.
Range(seq) == {seq[i] : i \in 1..Len(seq)}

\* push(x) unless includes(x)
AppendNew(seq, x) == IF x \in Range(seq) THEN seq ELSE Append(seq, x)

RECURSIVE Distinct(_)
\* Array.from(new Set(seq)): the first occurrence of each member, in order.
Distinct(seq) ==
    IF seq = <<>> THEN <<>>
    ELSE AppendNew(Distinct(SubSeq(seq, 1, Len(seq) - 1)), seq[Len(seq)])

\* expenses.map((e) => parseExpenseDate(e)).filter(Boolean)
ParsedDates(exps) ==
    SelectSeq([i \in 1..Len(exps) |-> parseExpenseDate(exps[i])], IsDate)

YearTextsOf(dates) == [i \in 1..Len(dates) |-> YearString(dates[i])]

\* date.ts lines 38-47
getAvailableYears(exps) == SortKeys("year", Distinct(YearTextsOf(ParsedDates(exps))))

\* The [month, year] pairs that a month label names.
LabelYears == 2024..2027

MonthsNamed(label) ==
    {p \in (1..12) \X LabelYears : MonthNames[p[1]] \o " " \o ToString(p[2]) = label}

FirstOfMonth(p) == Num(DaysFromCivil(p[2], p[1], 1))

\* new Date(label).getTime(), in days
MonthTime(label) ==
    IF MonthsNamed(label) = {} THEN NaN ELSE FirstOfMonth(CHOOSE p \in MonthsNamed(label) : TRUE)

\* The comparator of date.ts line 75 lets a stay before b.
MonthInOrder(a, b) == OrZero(Sub(MonthTime(a), MonthTime(b))).v <= 0

MonthInsertPos(sorted, k) ==
    CHOOSE p \in 0..Len(sorted) :
        /\ p = 0 \/ MonthInOrder(sorted[p], k)
        /\ \A i \in (p + 1)..Len(sorted) : ~MonthInOrder(sorted[i], k)

MonthInsertSorted(sorted, k) == InsertKey(sorted, MonthInsertPos(sorted, k), k)

RECURSIVE SortMonthLabels(_)
SortMonthLabels(ls) ==
    IF ls = <<>> THEN <<>>
    ELSE MonthInsertSorted(SortMonthLabels(SubSeq(ls, 1, Len(ls) - 1)), ls[Len(ls)])

\* date.ts lines 67-70: the dates of the year, as month labels.
MonthTextsOfYear(dates, year) ==
    [i \in 1..Len(SelectSeq(dates, LAMBDA d : YearString(d) = year)) |->
        MonthYearString(SelectSeq(dates, LAMBDA d : YearString(d) = year)[i])]

\* date.ts lines 63-76
getAvailableMonthsInYear(exps, year) ==
    IF year = "" THEN <<>>
    ELSE SortMonthLabels(Distinct(MonthTextsOfYear(ParsedDates(exps), year)))

\* Lines 321-324: the label joins the list of the record's year, once.
WeeksPut(m, year, label) ==
    IF HasKey(m, year)
    THEN [m EXCEPT ![KeyIndex(m, year)].val = AppendNew(@, label)]
    ELSE Append(m, [key |-> year, val |-> <<label>>])

\* Lines 317-325: one iteration of the forEach.
WeeksStep(m, d) ==
    IF ~IsDate(d) THEN m ELSE WeeksPut(m, YearString(d), getWeekRangeLabel(d))

RECURSIVE WeeksLoop(_)
WeeksLoop(exps) ==
    IF exps = <<>> THEN <<>>
    ELSE WeeksStep(WeeksLoop(SubSeq(exps, 1, Len(exps) - 1)), parseExpenseDate(exps[Len(exps)]))

\* Line 326: the entries of the map sorted by Number(a) - Number(b) of the year.
EntriesByYear(m) == EntriesOf(m, SortKeys("year", KeySeq(m)))

\* Lines 315-327: the map from year to week labels, as its list of entries.
availableWeeksByYear(exps) == EntriesByYear(WeeksLoop(exps))

RECURSIVE Flat(_)
\* Array.from(map.values()).flat()
Flat(m) == IF m = <<>> THEN <<>> ELSE Flat(SubSeq(m, 1, Len(m) - 1)) \o m[Len(m)].val

\* Line 328
allWeeks(exps) == Flat(availableWeeksByYear(exps))

\* indexOf(x) + 1: the first position of x, 0 when x is no member.
IndexOf(seq, x) ==
    IF x \in Range(seq) THEN CHOOSE i \in 1..Len(seq) : seq[i] = x /\ \A j \in 1..(i - 1) : seq[j] # x
    ELSE 0

\* Lines 520-524: the week that the previous-week button selects.
PrevWeekOf(weeks, selWeek) ==
    IF IndexOf(weeks, selWeek) > 1 THEN weeks[IndexOf(weeks, selWeek) - 1] ELSE selWeek

\* Lines 556-560: the week that the next-week button selects.
NextWeekOf(weeks, selWeek) ==
    IF IndexOf(weeks, selWeek) < Len(weeks) THEN weeks[IndexOf(weeks, selWeek) + 1] ELSE selWeek

\* Lines 334-338
WeekEffect(weeks, selWeek) ==
    IF selWeek = <<>> /\ Len(weeks) > 0 THEN weeks[Len(weeks)] ELSE selWeek

\* Lines 340-349
MonthYearEffect(years, selMonthYear) ==
    IF selMonthYear # "" THEN selMonthYear
    ELSE IF CurrentYear \in Range(years) THEN CurrentYear
    ELSE IF Len(years) > 0 THEN years[Len(years)]
    ELSE CurrentYear

\* selectedMonth.split(" ").pop()
LastWord(label) ==
    IF MonthsNamed(label) # {} THEN ToString((CHOOSE p \in MonthsNamed(label) : TRUE)[2])
    ELSE IF label = "Invalid Date" THEN "Date"
    ELSE label

\* Lines 351-363
MonthEffect(mode, available, selMonthYear, selMonth) ==
    IF mode # "month" THEN selMonth
    ELSE IF Len(available) = 0 THEN ""
    ELSE IF LastWord(selMonth) # selMonthYear \/ selMonth = "" THEN available[Len(available)]
    ELSE selMonth

\* The three effects run once on the state of one render: the selections
\* [week, month, monthYear] that they set.
EffectsPass(exps, mode, s) ==
    [week |-> WeekEffect(allWeeks(exps), s.week),
     monthYear |-> MonthYearEffect(getAvailableYears(exps), s.monthYear),
     month |-> MonthEffect(mode, getAvailableMonthsInYear(exps, s.monthYear),
                           s.monthYear, s.month)]

\* The effects run again after the render that their updates cause; the
\* second pass sets what no later pass changes.
Settled(exps, mode, s) == EffectsPass(exps, mode, EffectsPass(exps, mode, s))

\* setSelectedWeek, setSelectedMonth, setSelectedMonthYear
Select(s) ==
    /\ selectedWeek' = s.week
    /\ selectedMonth' = s.month
    /\ selectedMonthYear' = s.monthYear

\* A handler of the Dashboard left the records exps, the mode and the
\* selections s: the effects settle, and the analysis effect of Insights
\* runs on the props that result.
Rerender(exps, mode, s) == Select(Settled(exps, mode, s)) /\ Analyze

Selections == [week |-> selectedWeek, month |-> selectedMonth, monthYear |-> selectedMonthYear]

\* Line 575: the charts and their selects are rendered.
ChartsShown ==
    \/ Len(filterForPie(dashboardExpenses, viewMode, selectedWeek, selectedMonth, selectedYear)) > 0
    \/ Len(filterForLine(dashboardExpenses, viewMode, selectedWeek, selectedMonthYear)) > 0

\* onSnapshot callback of the Dashboard (lines 301-307) after a document was
\* added to the store.
DashboardAdded(recs, max) ==
    /\ Subscribed("Dashboard")
    /\ Len(dashboardExpenses) < max
    /\ \E rec \in recs, i \in 1..(Len(dashboardExpenses) + 1) :
          /\ OrderedByDate(InsertAt(dashboardExpenses, i, rec))
          /\ dashboardExpenses' = InsertAt(dashboardExpenses, i, rec)
    /\ UNCHANGED <<tz, expenses, viewMode, selectedYear, authUser, mounted, userId, subs,
                   store, formVars>>
    /\ Rerender(dashboardExpenses', viewMode, Selections)

\* onSnapshot callback after a document was deleted from the store.
DashboardRemoved ==
    /\ Subscribed("Dashboard")
    /\ \E i \in 1..Len(dashboardExpenses) : dashboardExpenses' = RemoveAt(dashboardExpenses, i)
    /\ UNCHANGED <<tz, expenses, viewMode, selectedYear, authUser, mounted, userId, subs,
                   store, formVars>>
    /\ Rerender(dashboardExpenses', viewMode, Selections)

\* onSnapshot callback after a document's amount and category were updated.
DashboardModified(recs) ==
    /\ Subscribed("Dashboard")
    /\ \E i \in 1..Len(dashboardExpenses), r \in recs :
          /\ r.date = dashboardExpenses[i].date
          /\ dashboardExpenses' = [dashboardExpenses EXCEPT ![i] = r]
    /\ UNCHANGED <<tz, expenses, viewMode, selectedYear, authUser, mounted, userId, subs,
                   store, formVars>>
    /\ Rerender(dashboardExpenses', viewMode, Selections)

\* Line 492: a tab of the view mode is clicked.
ClickMode(mode) ==
    /\ viewMode' = mode
    /\ UNCHANGED <<tz, expenses, selectedYear, authUser, mounted, userId, subs, store,
                   formVars, dashboardExpenses>>
    /\ Rerender(dashboardExpenses, mode, Selections)

\* Lines 520-524
ClickPrevWeek ==
    /\ viewMode = "week"
    /\ UNCHANGED <<tz, expenses, viewMode, selectedYear, authUser, mounted, userId, subs,
                   store, formVars, dashboardExpenses>>
    /\ Rerender(dashboardExpenses, viewMode,
                [Selections EXCEPT !.week = PrevWeekOf(allWeeks(dashboardExpenses), selectedWeek)])

\* Lines 556-560
ClickNextWeek ==
    /\ viewMode = "week"
    /\ UNCHANGED <<tz, expenses, viewMode, selectedYear, authUser, mounted, userId, subs,
                   store, formVars, dashboardExpenses>>
    /\ Rerender(dashboardExpenses, viewMode,
                [Selections EXCEPT !.week = NextWeekOf(allWeeks(dashboardExpenses), selectedWeek)])

\* Line 536: an option of the week select is chosen.
ChooseWeek ==
    /\ viewMode = "week"
    /\ UNCHANGED <<tz, expenses, viewMode, selectedYear, authUser, mounted, userId, subs,
                   store, formVars, dashboardExpenses>>
    /\ \E w \in Range(allWeeks(dashboardExpenses)) :
          Rerender(dashboardExpenses, viewMode, [Selections EXCEPT !.week = w])

\* Line 601: an option of the month select is chosen.
ChooseMonth ==
    /\ viewMode = "month" /\ ChartsShown
    /\ UNCHANGED <<tz, expenses, viewMode, selectedYear, authUser, mounted, userId, subs,
                   store, formVars, dashboardExpenses>>
    /\ \E m \in Range(getAvailableMonthsInYear(dashboardExpenses, selectedMonthYear)) :
          Rerender(dashboardExpenses, viewMode, [Selections EXCEPT !.month = m])

\* Line 656: an option of the month-year select is chosen.
ChooseMonthYear ==
    /\ viewMode = "month" /\ ChartsShown
    /\ UNCHANGED <<tz, expenses, viewMode, selectedYear, authUser, mounted, userId, subs,
                   store, formVars, dashboardExpenses>>
    /\ \E y \in Range(getAvailableYears(dashboardExpenses)) :
          Rerender(dashboardExpenses, viewMode, [Selections EXCEPT !.monthYear = y])

\* Line 620: an option of the year select is chosen.
ChooseYear ==
    /\ viewMode = "year" /\ ChartsShown
    /\ \E y \in Range(getAvailableYears(dashboardExpenses)) : selectedYear' = y
    /\ UNCHANGED <<tz, expenses, viewMode, authUser, mounted, userId, subs, store,
                   formVars, dashboardExpenses>>
    /\ Rerender(dashboardExpenses, viewMode, Selections)

\* Snapshots of up to MaxDashLen records of Mon 2025-11-24, Wed 2025-12-31,
\* Fri 2026-01-02 (the week of Wed 2025-12-31) and Mon 2026-01-05.
DashboardRecords ==
    {[date |-> [type |-> "timestamp", day |-> d, hour |-> 12],
      amount |-> [type |-> "number", num |-> Num(n)],
      category |-> "Food"] :
        d \in {DaysFromCivil(2025, 11, 24), DaysFromCivil(2025, 12, 31),
               DaysFromCivil(2026, 1, 2), DaysFromCivil(2026, 1, 5)},
        n \in {50, 100}}

NextDashboard ==
    \/ DashboardAdded(DashboardRecords, MaxDashLen)
    \/ DashboardRemoved
    \/ DashboardModified(DashboardRecords)
    \/ \E mode \in ViewModes : ClickMode(mode)
    \/ ClickPrevWeek
    \/ ClickNextWeek
    \/ ChooseWeek
    \/ ChooseMonth
    \/ ChooseMonthYear
    \/ ChooseYear

SpecDashboard == Init /\ [][NextDashboard]_vars

----------------------------------------------------------------------------
(* Properties *)

MonthSet == {MonthNames[i] : i \in 1..12}

\* The date of a record resolves to a valid calendar date.
Resolvable(exp) == IsValid(parseExpenseDate(exp))

ResolvableOnly(exps) == SelectSeq(exps, Resolvable)

\* The amount of a record as a number, zero when it is not numeric.
NumericAmount(exp) == IF ToNumber(exp.amount).nan THEN 0 ELSE ToNumber(exp.amount).v

RECURSIVE SumNumeric(_)
SumNumeric(exps) ==
    IF exps = <<>> THEN 0 ELSE NumericAmount(Head(exps)) + SumNumeric(Tail(exps))

\* The sum of the numeric amounts of the records of exps that satisfy Test.
SumOver(exps, Test(_)) == SumNumeric(SelectSeq(exps, Test))

\* C1: for every non-empty record set, buildDateTotals in month mode returns
\* a mapping whose keys are exactly the twelve month names Jan..Dec.
C1_MonthKeysExactlyTwelve ==
    Len(expenses) > 0 =>
        LET r == buildDateTotals(expenses, "month")
        IN  ~r.raised /\ Keys(r.out) = MonthSet /\ Len(r.out) = 12

\* C2: a record whose date does not resolve to a valid calendar date is left
\* out by filterForPie and filterForLine and adds to no key of
\* buildDateTotals, in every view mode and selection, and none of them raises.
C2_UnresolvableExcluded ==
    \A mode \in ViewModes, w \in WeekLabels, m \in MonthLabels, y \in YearLabels :
        /\ filterForPie(expenses, mode, w, m, y)
              = filterForPie(ResolvableOnly(expenses), mode, w, m, y)
        /\ filterForLine(expenses, mode, w, y)
              = filterForLine(ResolvableOnly(expenses), mode, w, y)
        /\ ~buildDateTotals(expenses, mode).raised
        /\ buildDateTotals(expenses, mode) = buildDateTotals(ResolvableOnly(expenses), mode)

\* C3: every value of buildCategoryTotals and of buildDateTotals, and the
\* insight total, is a number (not NaN) equal to the sum of the numeric
\* amounts of the records of its key; a non-numeric amount adds zero.
C3_NonNumericAmountAddsZero ==
    (\A k \in 1..Len(expenses) : Resolvable(expenses[k])) =>
    /\ LET out == buildCategoryTotals(expenses)
       IN  \A i \in 1..Len(out) :
             /\ ~out[i].val.nan
             /\ out[i].val.v = SumOver(expenses, LAMBDA e : CategoryOf(e) = out[i].key)
    /\ \A mode \in ViewModes :
          LET r == buildDateTotals(expenses, mode)
          IN  ~r.raised =>
                \A i \in 1..Len(r.out) :
                  /\ ~r.out[i].val.nan
                  /\ r.out[i].val.v = SumOver(expenses, LAMBDA e :
                        IsDate(parseExpenseDate(e))
                        /\ DateKey(parseExpenseDate(e), mode) = r.out[i].key)
    /\ \A y \in YearLabels \ {""} :
          TotalSpent(InsightsFilter(expenses, "year", <<>>, "", y))
            = SumOver(expenses, LAMBDA e : 
                InsightsKeeps(parseExpenseDate(e), "year", <<>>, "", y))

\* The Monday on or before a day number (day 4, 1970-01-05, was a Monday).
MondayOnOrBefore(day) == CHOOSE m \in (day - 6)..day : (m + 3) % 7 = 0

\* The label of the Monday-Sunday week that holds a day number.
WeekLabelOfDay(day) ==
    LET mon == MondayOnOrBefore(day)
    IN  <<MonthNames[Civil(mon).m] \o " " \o ToString(Civil(mon).d),
          MonthNames[Civil(mon + 6).m] \o " " \o ToString(Civil(mon + 6).d),
          ToString(Civil(mon).y)>>

\* C4: getWeekRangeLabel(d) names the Monday on or before d, the Sunday six
\* days later and the year of that Monday; two dates of one Monday-Sunday
\* week get the same label and two dates eight days apart get different ones.
C4_WeekLabelMondayToSunday ==
    \A i, j \in 1..Len(expenses) :
        LET di == parseExpenseDate(expenses[i])
            dj == parseExpenseDate(expenses[j])
        IN  /\ getWeekRangeLabel(di) = WeekLabelOfDay(di.day)
            /\ MondayOnOrBefore(di.day) = MondayOnOrBefore(dj.day)
                  => getWeekRangeLabel(di) = getWeekRangeLabel(dj)
            /\ (di.day - dj.day = 8 \/ dj.day - di.day = 8)
                  => getWeekRangeLabel(di) # getWeekRangeLabel(dj)

\* A Monday and the Sunday of the same week, in different years, are labelled,
\* and so is a date eight days from another.
C4_Witness ==
    /\ Len(expenses) = 2
    /\ getDay(parseExpenseDate(expenses[1])) = 1
    /\ getDay(parseExpenseDate(expenses[2])) = 0
    /\ expenses[2].date.day - expenses[1].date.day = 6
    /\ getFullYear(parseExpenseDate(expenses[1])) # getFullYear(parseExpenseDate(expenses[2]))
    /\ getWeekRangeLabel(parseExpenseDate(expenses[2])) = <<"Dec 29", "Jan 4", "2025">>

\* C5: over the pie filter set, the category totals add up to the numeric
\* amounts of exactly the records that have a resolvable date and match the
\* selected period; a record with an unparseable date adds nothing.
C5_CategorySumOverPieFilter ==
    \A mode \in ViewModes, w \in WeekLabels, m \in MonthLabels, y \in YearLabels :
        LET out == buildCategoryTotals(filterForPie(expenses, mode, w, m, y))
        IN  /\ \A i \in 1..Len(out) : ~out[i].val.nan
            /\ SumNum(out).v = SumOver(expenses, LAMBDA e :
                  Resolvable(e) /\ PieKeeps(parseExpenseDate(e), mode, w, m, y))

\* The records that the analysis effect keeps for the selected period.
Filtered == InsightsFilter(expenses, viewMode, selectedWeek, selectedMonth, selectedYear)

\* The effect went past its guards in week mode.
WeekAnalysis == viewMode = "week" /\ selectedWeek # <<>> /\ Len(Filtered) > 0

HasKind(k) == \E i \in 1..Len(insights) : insights[i].kind = k

TextOfKind(k) == insights[CHOOSE i \in 1..Len(insights) : insights[i].kind = k].text

CurrentTotal ==
    SumOver(expenses, LAMBDA e :
        IsDate(parseExpenseDate(e)) /\ getWeekRangeLabel(parseExpenseDate(e)) = selectedWeek)

PreviousTotal ==
    SumOver(expenses, LAMBDA e :
        IsDate(parseExpenseDate(e))
        /\ getWeekRangeLabel(parseExpenseDate(e)) = PrevLabel(selectedWeek))

\* C6: the week-over-week statement is "steady" when the current and the
\* previous week total are both zero, "started spending" when the previous is
\* zero and the current positive, and otherwise "Same as last week" exactly
\* when the totals are equal, else Up or Down with the finite percentage
\* |(current - previous) / previous * 100| to one decimal; 100 against 50
\* reads "Up 100.0% vs last week.".
C6_WeekOverWeekStatement ==
    WeekAnalysis =>
        /\ HasKind("wow")
        /\ LET cur  == CurrentTotal
               prev == PreviousTotal
               pct  == FixedString(RoundDiv(Abs(cur - prev) * 1000, Abs(prev)), 1)
           IN  IF prev = 0 /\ cur = 0
               THEN TextOfKind("wow") = "Spending is steady compared to last week."
               ELSE IF prev = 0 /\ cur > 0
               THEN TextOfKind("wow") = "You started spending this week (no spend last week)."
               ELSE /\ prev # 0
                    /\ IF cur = prev
                       THEN TextOfKind("wow") = "Same as last week."
                       ELSE TextOfKind("wow") \in {"Up " \o pct \o "% vs last week.",
                                                   "Down " \o pct \o "% vs last week."}
                    /\ (cur = 100 /\ prev = 50)
                          => TextOfKind("wow") = "Up 100.0% vs last week."

\* The no-spend statement that lists the weekdays of `days`: none when days
\* is empty, else the last statement of the list.
NoSpendStatementIs(days) ==
    IF days = <<>> THEN ~HasKind("noSpend")
    ELSE insights[Len(insights)]
            = [kind |-> "noSpend", text |-> "No-spend days: <b>" \o Join(days) \o "</b>."]

\* C7 as stated: in week mode the no-spend statement lists, Monday first,
\* exactly the weekdays that have no record in the selected week, whatever
\* the amounts of the records, and is left out when every weekday has one.
C7_NoSpendDaysAreDaysWithoutRecord ==
    WeekAnalysis =>
        NoSpendStatementIs(SelectSeq(AllWeekdays, LAMBDA w :
            ~\E i \in 1..Len(Filtered) : WeekdayString(parseExpenseDate(Filtered[i])) = w))

\* C7 as amended: in week mode the no-spend statement lists, Monday first,
\* exactly the weekdays whose amounts in the selected week add up to zero
\* (the weekdays without a record among them), and is left out when every
\* weekday has a non-zero total.
C7_NoSpendDaysAreDaysWithZeroTotal ==
    WeekAnalysis =>
        NoSpendStatementIs(SelectSeq(AllWeekdays, LAMBDA w :
            SumOver(Filtered, LAMBDA e : WeekdayString(parseExpenseDate(e)) = w) = 0))

\* A record on each of the seven days of the selected week, one of them of
\* amount zero: the statement is there and names that day alone.
C7_Witness ==
    /\ WeekAnalysis
    /\ Len(Filtered) = 7
    /\ Cardinality({i \in 1..7 : NumericAmount(Filtered[i]) = 0}) = 1
    /\ HasKind("noSpend")

\* C8: while the record list is empty the insight list is the single
\* statement "No data yet to analyze your spending.", under every view mode
\* and selection.
C8_EmptyStoreSingleStatement ==
    Len(expenses) = 0 =>
        insights = << [kind |-> "noData", text |-> "No data yet to analyze your spending."] >>

\* The effect ran on an empty list in week mode with a week selected.
C8_Witness ==
    Len(expenses) = 0 /\ viewMode = "week" /\ selectedWeek # <<>> /\ Len(insights) = 1

\* C9: with records, week mode and no week selected the insight list is the
\* single statement "Select a week to see insights."; in month and year mode
\* that statement never appears.
C9_SelectWeekOnlyInWeekMode ==
    /\ (Len(expenses) > 0 /\ viewMode = "week" /\ selectedWeek = <<>>)
          => insights = << [kind |-> "selectWeek", text |-> "Select a week to see insights."] >>
    /\ viewMode # "week" => ~HasKind("selectWeek")

\* Week mode, records present, no week selected.
C9_Witness ==
    Len(expenses) > 0 /\ viewMode = "week" /\ selectedWeek = <<>> /\ HasKind("selectWeek")

\* C10: past the first two guards, when no record with a resolvable date
\* matches the selected period the insight list is the single statement
\* "No <mode> data available for the selected period."; a list with a
\* total-spend line has a matching record with a resolvable date.
C10_NoPeriodDataStatement ==
    (Len(expenses) > 0 /\ ~(viewMode = "week" /\ selectedWeek = <<>>)) =>
        LET matching == SelectSeq(Filtered, Resolvable)
        IN  /\ Len(matching) = 0 =>
                  insights = << [kind |-> "noPeriodData", text |->
                                  "No " \o viewMode \o " data available for the selected period."] >>
            /\ HasKind("total") => Len(matching) > 0

\* The local calendar days on which the kept records with a resolvable date
\* fall.
DistinctDays == {parseExpenseDate(Filtered[i]).day : i \in {j \in 1..Len(Filtered) : Resolvable(Filtered[j])}}

\* The divisor: the number of distinct days, at least 1.
DayDivisor == IF DistinctDays = {} THEN 1 ELSE Cardinality(DistinctDays)

\* The effect went past its two guards and its filter kept a record.
Analysed ==
    /\ Len(expenses) > 0
    /\ ~(viewMode = "week" /\ selectedWeek = <<>>)
    /\ Len(Filtered) > 0

\* C11: for every non-empty filtered set, records with an unparseable date
\* and a single record included, the average-per-day statement shows the sum
\* of the kept amounts divided by the number of distinct calendar days among
\* them, the divisor being at least 1, as a finite number with two decimals.
C11_AveragePerDay ==
    Analysed =>
        /\ HasKind("average")
        /\ TextOfKind("average")
              = "Average per day: <b>RM "
                  \o FixedString(RoundDiv(SumNumeric(Filtered) * 100, DayDivisor), 2) \o "</b>."

\* Two kept records on one day, of a total that is not zero.
C11_Witness ==
    /\ Analysed
    /\ Len(Filtered) = 2
    /\ Cardinality(DistinctDays) = 1
    /\ SumNumeric(Filtered) # 0
    /\ HasKind("average")

\* res lists every key of the mapping m once.
IsPermutationOfKeys(res, m) ==
    /\ Len(res) = Len(m)
    /\ {res[i] : i \in 1..Len(res)} = Keys(m)

\* The mapping with the keys of ks, inserted in that order.
MappingOf(ks) == [i \in 1..Len(ks) |-> [key |-> ks[i], val |-> Num(10 * i)]]

\* The lists without repetition of up to three of the texts of S.
KeyLists(S) ==
    {<<>>} \cup {<<a>> : a \in S}
        \cup {p \in S \X S : p[1] # p[2]}
        \cup {p \in S \X S \X S : p[1] # p[2] /\ p[1] # p[3] /\ p[2] # p[3]}

\* The month names among ks in calendar order.
CalendarOrder(ks) == SelectSeq(MonthNames, LAMBDA n : \E i \in 1..Len(ks) : ks[i] = n)

\* C12: in month mode sortXAxisKeys returns every key of the mapping once,
\* the month names in the order Jan..Dec, whatever the order in which the
\* keys were inserted: for the month mapping of every snapshot, and for
\* every mapping of up to three month keys in every insertion order.
C12_MonthKeysInCalendarOrder ==
    /\ IsPermutationOfKeys(sortXAxisKeys("month", buildDateTotals(expenses, "month").out),
                           buildDateTotals(expenses, "month").out)
    /\ SelectSeq(sortXAxisKeys("month", buildDateTotals(expenses, "month").out),
                 LAMBDA k : k \in MonthSet) = MonthNames
    /\ \A ks \in KeyLists({"Dec", "Mar", "Jan"}) :
          sortXAxisKeys("month", MappingOf(ks)) = CalendarOrder(ks)

\* A snapshot whose records put Dec into the mapping before Jan.
C12_Witness ==
    /\ Len(buildDateTotals(expenses, "month").out) >= 12
    /\ buildDateTotals(expenses, "month").out[1].key = "Dec"
    /\ buildDateTotals(expenses, "month").out[2].key = "Jan"
    /\ MonthIndexOf(sortXAxisKeys("month", buildDateTotals(expenses, "month").out)[1]) = 0

\* The year keys of res stand in ascending numeric order.
YearsAscending(res) ==
    \A i \in 1..Len(res), j \in 1..Len(res) :
        (i < j /\ IsIndexKey(res[i]) /\ IsIndexKey(res[j]))
            => KeyNumber(res[i]).v < KeyNumber(res[j]).v

\* C13: in year mode sortXAxisKeys returns every key of the mapping once,
\* the years in ascending numeric order: for the year mapping of every
\* snapshot (the key "NaN" of records with an unparseable date included),
\* for every mapping of up to three keys in every insertion order, and
\* 2023, 2021, 2022 gives "2021", "2022", "2023".
C13_YearKeysAscending ==
    /\ ~buildDateTotals(expenses, "year").raised
    /\ IsPermutationOfKeys(sortXAxisKeys("year", buildDateTotals(expenses, "year").out),
                           buildDateTotals(expenses, "year").out)
    /\ YearsAscending(sortXAxisKeys("year", buildDateTotals(expenses, "year").out))
    /\ \A ks \in KeyLists({"2023", "2021", "2022", "NaN"}) :
          /\ IsPermutationOfKeys(sortXAxisKeys("year", MappingOf(ks)), MappingOf(ks))
          /\ YearsAscending(sortXAxisKeys("year", MappingOf(ks)))
    /\ sortXAxisKeys("year", MappingOf(<<"2023", "2021", "2022">>)) = <<"2021", "2022", "2023">>

\* A snapshot with records of two years and one with an unparseable date.
C13_Witness ==
    /\ Len(expenses) = 3
    /\ sortXAxisKeys("year", buildDateTotals(expenses, "year").out) \in
          {<<"2024", "2025", "NaN">>, <<"2024", "2026", "NaN">>, <<"2025", "2026", "NaN">>}

\* Some record of the snapshot has a Date that goes to the key in this mode.
SomeRecordMapsTo(key, mode) ==
    \E k \in 1..Len(expenses) :
        /\ IsDate(parseExpenseDate(expenses[k]))
        /\ ~KeyRaises(parseExpenseDate(expenses[k]), mode)
        /\ DateKey(parseExpenseDate(expenses[k]), mode) = key

\* The snapshot is one record of amount 50 dated on a Monday.
SingleMondayRecord ==
    /\ Len(expenses) = 1
    /\ Resolvable(expenses[1])
    /\ getDay(parseExpenseDate(expenses[1])) = 1
    /\ ToNumber(expenses[1].amount) = Num(50)

\* The ISO dates of the seven days of the week that starts on day monday.
DatesOfWeek(monday) == {ISODay(monday + i) : i \in 0..6}

\* C14: in week and year mode every key of buildDateTotals is the key of at
\* least one input record (nothing is filled in), and in week mode a single
\* record of amount 50 dated the Monday of week W gives one bucket of total
\* 50 whose key lies in the week W.
C14_NoFillAndWeekKey ==
    /\ \A mode \in {"week", "year"} :
          ~buildDateTotals(expenses, mode).raised =>
              \A i \in 1..Len(buildDateTotals(expenses, mode).out) :
                  SomeRecordMapsTo(buildDateTotals(expenses, mode).out[i].key, mode)
    /\ SingleMondayRecord =>
          /\ ~buildDateTotals(expenses, "week").raised
          /\ Len(buildDateTotals(expenses, "week").out) = 1
          /\ buildDateTotals(expenses, "week").out[1].val = Num(50)
          /\ buildDateTotals(expenses, "week").out[1].key
                \in DatesOfWeek(parseExpenseDate(expenses[1]).day)

\* The records of exps with a resolvable date all fall in one year.
SameYear(exps) ==
    \A i \in 1..Len(exps), j \in 1..Len(exps) :
        (Resolvable(exps[i]) /\ Resolvable(exps[j]))
            => getFullYear(parseExpenseDate(exps[i])) = getFullYear(parseExpenseDate(exps[j]))

\* The month labels of the records of the snapshot.
MonthLabelsPresent ==
    {MonthYearString(parseExpenseDate(expenses[i])) :
        i \in {j \in 1..Len(expenses) : IsDate(parseExpenseDate(expenses[j]))}}

\* The records with a resolvable date that month mode sums under key.
RecordsOfMonthKey(key) ==
    SelectSeq(expenses, LAMBDA e : Resolvable(e) /\ DateKey(parseExpenseDate(e), "month") = key)

\* C15: records of the same month name but of different years are never
\* summed together: the month filter keeps records of one year only, and
\* every bucket of the month totals sums records of one year only.
C15_MonthsOfDistinctYearsApart ==
    /\ \A m \in MonthLabelsPresent :
          /\ SameYear(filterForPie(expenses, "month", <<>>, m, ""))
          /\ SameYear(InsightsFilter(expenses, "month", <<>>, m, ""))
    /\ \A i \in 1..Len(buildDateTotals(expenses, "month").out) :
          SameYear(RecordsOfMonthKey(buildDateTotals(expenses, "month").out[i].key))

\* C16: parseExpenseDate gives a valid calendar date or null for every
\* stored record: null for an absent date, for a date that is neither a
\* timestamp nor a string, and for a string that names no calendar date.
C16_ParseGivesDateOrNull ==
    \A i \in 1..Len(expenses) :
        /\ parseExpenseDate(expenses[i]) = Null \/ IsValid(parseExpenseDate(expenses[i]))
        /\ expenses[i].date.type \in {"null", "number"} => parseExpenseDate(expenses[i]) = Null
        /\ (expenses[i].date.type = "string"
              /\ \A day \in StringDays : ISODay(day) # expenses[i].date.text)
                => parseExpenseDate(expenses[i]) = Null

\* Each component listens to at most one query, the one of its userId, and
\* to none while it is unmounted or its userId is null.
OneSubscription ==
    \A c \in Components :
        /\ Cardinality(subs[c]) <= 1
        /\ ~mounted[c] => subs[c] = {}
        /\ userId[c] = NoUser => subs[c] = {}
        /\ Subscribed(c) => subs[c] = {userId[c]}

\* The record list of the mounted Insights changes only by a snapshot that
\* is delivered while its listener is registered.
DeliveredOnlyWhileSubscribed ==
    (expenses' # expenses /\ mounted["Insights"] /\ mounted'["Insights"])
        => Subscribed("Insights")

\* C17: each component holds at most one live subscription, which is
\* released when the component is unmounted and when the signed-in user
\* changes or signs out, and after the release no snapshot reaches the
\* component.
C17_OneSubscriptionReleased == [](OneSubscription) /\ [][DeliveredOnlyWhileSubscribed]_vars

\* Insights was unmounted after it had received a snapshot, and another
\* component went from one user to the other.
C17_Witness ==
    /\ ~mounted["Insights"] /\ Len(expenses) > 0 /\ subs["Insights"] = {}
    /\ mounted["Dashboard"] /\ subs["Dashboard"] = {"bob"}
    /\ mounted["ExpenseList"] /\ authUser = NoUser /\ userId["ExpenseList"] = NoUser

\* C18: after every snapshot, view-mode change and selection change, the
\* displayed insight list is the list computed from scratch from the latest
\* snapshot, the current view mode and the current selection.
C18_InsightsRecomputed ==
    insights = BuildInsights(expenses, viewMode, selectedWeek, selectedMonth, selectedYear)

\* A full statement list in week mode, after the view mode and the week were
\* changed and two snapshots arrived.
C18_Witness ==
    /\ Len(expenses) = 2
    /\ viewMode = "week" /\ selectedWeek # <<>>
    /\ HasKind("total") /\ HasKind("wow")

\* C19: every document written by the add form or the edit form has one of
\* the eight categories.
C19_WrittenCategoryEnumerated ==
    \A i \in 1..Len(store) : store[i].category \in Categories

\* C20: every amount written by the add form or the edit form is a number
\* that is not NaN and not negative.
C20_WrittenAmountNonNegative ==
    \A i \in 1..Len(store) : ~store[i].amount.num.nan /\ store[i].amount.num.v >= 0

\* The start of a week label parsed as line 127 parses it.
StartOfLabel(label) == NewDateFromLabelStart(label[1], label[3])

\* C22: for every label L that getWeekRangeLabel gives to a stored date, the
\* start part of L parses to the Monday of L, the label of the day seven days
\* before it is the label of the Monday-Sunday week before L, and the
\* previous total is the sum over all stored records of that week.
C22_PreviousWeekIsWeekBefore ==
    \A i \in 1..Len(expenses) :
        IsDate(parseExpenseDate(expenses[i])) =>
            /\ IsValid(StartOfLabel(getWeekRangeLabel(parseExpenseDate(expenses[i]))))
            /\ StartOfLabel(getWeekRangeLabel(parseExpenseDate(expenses[i])))
                  = getMonday(parseExpenseDate(expenses[i]))
            /\ PrevLabel(getWeekRangeLabel(parseExpenseDate(expenses[i])))
                  = WeekLabelOfDay(getMonday(parseExpenseDate(expenses[i])).day - 7)
            /\ PrevTotal(expenses, getWeekRangeLabel(parseExpenseDate(expenses[i])))
                  = SumOver(expenses, LAMBDA e :
                        Resolvable(e)
                        /\ MondayOnOrBefore(parseExpenseDate(e).day)
                              = getMonday(parseExpenseDate(expenses[i])).day - 7)

\* The kinds of the statements shown, in order.
KindsShown == [i \in 1..Len(insights) |-> insights[i].kind]

\* Some weekday has no spend among the records kept for the period.
SomeNoSpendDay ==
    \E k \in 1..7 :
        SumOver(Filtered, LAMBDA e : WeekdayString(parseExpenseDate(e)) = WeekdayNames[k]) = 0

\* C23: when the period filter keeps a record the statements are, in order,
\* the snapshot, the top category, the top weekday, the total and the
\* average, followed in week mode only by the week-over-week statement,
\* which is never empty, and then by the no-spend statement if a weekday has
\* no spend.
C23_StatementOrder ==
    Len(Filtered) > 0 =>
        /\ KindsShown = <<"snapshot", "topCategory", "topDay", "total", "average">>
              \o (IF viewMode = "week" THEN <<"wow">> ELSE <<>>)
              \o (IF viewMode = "week" /\ SomeNoSpendDay THEN <<"noSpend">> ELSE <<>>)
        /\ viewMode = "week" => insights[6].text # ""

\* Week mode with spend on every weekday: the week-over-week statement ends
\* the list.
C23_Witness ==
    /\ viewMode = "week"
    /\ Len(Filtered) = 7
    /\ ~SomeNoSpendDay
    /\ Len(insights) = 6
    /\ insights[6].kind = "wow"

\* C25: for every record list, view mode and selection, the empty selection
\* included, the period filter of the analysis effect keeps exactly the
\* records that filterForPie keeps.
C25_InsightsFilterIsPieFilter ==
    \A mode \in ViewModes, w \in WeekLabels, m \in MonthLabels, y \in YearLabels :
        InsightsFilter(expenses, mode, w, m, y) = filterForPie(expenses, mode, w, m, y)

\* Two records, one of them with an unparseable date text that both filters
\* keep for the year "NaN", and nothing kept for an empty selection.
C25_Witness ==
    /\ Len(expenses) = 2
    /\ Len(filterForPie(expenses, "year", <<>>, "", "NaN")) = 1
    /\ Len(InsightsFilter(expenses, "year", <<>>, "", "NaN")) = 1
    /\ Len(filterForPie(expenses, "week", <<"Dec 29", "Jan 4", "2025">>, "", "")) = 1
    /\ filterForPie(expenses, "month", <<>>, "", "") = <<>>

\* The month label names a month of the year that the year label names.
MonthOfYear(monthLabel, yearLabel) ==
    \E i \in 1..12 : monthLabel = MonthNames[i] \o " " \o yearLabel

\* Every record of list a is a record of list b.
SubsetOf(a, b) == \A i \in 1..Len(a) : \E j \in 1..Len(b) : a[i] = b[j]

\* C26: among the records with a parseable date filterForLine keeps, in week
\* mode, those whose week label is the selected week, in month mode those
\* whose year is the selected month-year and in year mode all; so in week
\* mode, and in month mode when the selected month is a month of the selected
\* month-year, every record of the pie filter is a record of the line
\* filter.
C26_LineFilter ==
    \A mode \in ViewModes, w \in WeekLabels, m \in MonthLabels, y \in YearLabels, my \in YearLabels :
        /\ ResolvableOnly(filterForLine(expenses, mode, w, my))
              = SelectSeq(expenses, LAMBDA e :
                    /\ Resolvable(e)
                    /\ mode = "week" => WeekLabelOfDay(parseExpenseDate(e).day) = w
                    /\ mode = "month" => ToString(Civil(parseExpenseDate(e).day).y) = my)
        /\ (mode = "week" \/ (mode = "month" /\ MonthOfYear(m, my)))
              => SubsetOf(filterForPie(expenses, mode, w, m, y),
                          filterForLine(expenses, mode, w, my))

\* A record of Dec 2025 and one of Jan 2026: for the month "Dec 2025" of the
\* month-year "2025" the pie filter keeps the first and the line filter
\* keeps it too, and for the week of Dec 29 both filters keep the two.
C26_Witness ==
    /\ Len(expenses) = 2
    /\ Len(filterForPie(expenses, "month", <<>>, "Dec 2025", "")) = 1
    /\ Len(filterForLine(expenses, "month", <<>>, "2025")) = 1
    /\ Len(filterForLine(expenses, "week", <<"Dec 29", "Jan 4", "2025">>, "")) = 2
    /\ Len(filterForLine(expenses, "year", <<>>, "")) = 2

\* The week labels whose start part names a calendar date.
DatedWeekLabels == {w \in WeekLabels \ {<<>>} : IsValid(StartOfLabel(w))}

\* C30: in week mode, on every host, the keys of the totals built from the
\* line filter set are dates of the selected Monday-Sunday week, at most
\* seven of them.
C30_WeekKeysInsideSelectedWeek ==
    \A w \in DatedWeekLabels :
        /\ ~buildDateTotals(filterForLine(expenses, "week", w, ""), "week").raised
        /\ Keys(buildDateTotals(filterForLine(expenses, "week", w, ""), "week").out)
              \subseteq DatesOfWeek(StartOfLabel(w).day)
        /\ Cardinality(Keys(buildDateTotals(filterForLine(expenses, "week", w, ""), "week").out)) <= 7

\* The categories and the weekdays of the records kept for the period.
CategoriesKept == {CategoryOf(Filtered[i]) : i \in 1..Len(Filtered)}

WeekdaysKept == {WeekdayString(parseExpenseDate(Filtered[i])) : i \in 1..Len(Filtered)}

CategoryTotal(c) == SumOver(Filtered, LAMBDA e : CategoryOf(e) = c)

WeekdayTotal(w) == SumOver(Filtered, LAMBDA e : WeekdayString(parseExpenseDate(e)) = w)

\* The position in the kept records at which a category or weekday is first
\* encountered.
CategoryFirstSeen(c) ==
    CHOOSE i \in 1..Len(Filtered) :
        /\ CategoryOf(Filtered[i]) = c
        /\ \A j \in 1..(i - 1) : CategoryOf(Filtered[j]) # c

WeekdayFirstSeen(w) ==
    CHOOSE i \in 1..Len(Filtered) :
        /\ WeekdayString(parseExpenseDate(Filtered[i])) = w
        /\ \A j \in 1..(i - 1) : WeekdayString(parseExpenseDate(Filtered[j])) # w

\* C24: the top category and the top weekday shown have the highest total of
\* their map, and among the entries that tie for it the one first encountered
\* in the order of the kept records.
C24_TopIsFirstHighest ==
    Len(Filtered) > 0 =>
        /\ \E c \in CategoriesKept :
              /\ \A o \in CategoriesKept \ {c} :
                    \/ CategoryTotal(o) < CategoryTotal(c)
                    \/ /\ CategoryTotal(o) = CategoryTotal(c)
                       /\ CategoryFirstSeen(c) < CategoryFirstSeen(o)
              /\ TextOfKind("topCategory") = "Top category: <b>" \o c
                    \o "</b> (RM " \o ToFixed2(CategoryTotal(c)) \o ")."
        /\ \E w \in WeekdaysKept :
              /\ \A o \in WeekdaysKept \ {w} :
                    \/ WeekdayTotal(o) < WeekdayTotal(w)
                    \/ /\ WeekdayTotal(o) = WeekdayTotal(w)
                       /\ WeekdayFirstSeen(w) < WeekdayFirstSeen(o)
              /\ TextOfKind("topDay") = "Busiest day: <b>" \o w
                    \o "</b> (RM " \o ToFixed2(WeekdayTotal(w)) \o ")."

\* Every active subscription of a component is to the query of the user in
\* its userId state.
SubscriptionsOfOwnUser ==
    \A c \in Components : subs[c] \subseteq ({userId[c]} \ {NoUser})

\* A step that opens a subscription opens it on the query of the signed-in
\* user.
OpensForSignedInUser ==
    \A c \in Components : (subs'[c] \ subs[c]) \subseteq ({authUser} \ {NoUser})

\* A step that adds a document adds one owned by the signed-in user.
CreatesForSignedInUser ==
    Len(store') > Len(store) =>
        /\ authUser # NoUser
        /\ store'[Len(store')].userId = authUser
        /\ SubSeq(store', 1, Len(store)) = store

\* A submit shows by its alert. One made with nobody signed in or with an
\* empty amount or category writes nothing, leaves the fields as they are
\* and says why.
RejectedSubmitKeepsForm ==
    (alerted' # alerted /\ (authUser = NoUser \/ form.amount = "" \/ form.category = ""))
        => /\ store' = store
           /\ form' = form
           /\ alerted' = IF authUser = NoUser THEN "You must be logged in!"
                                              ELSE "Amount and category required!"

\* C21: every subscription is to the query filtered on the id of the user
\* signed in when it was opened, every document created carries the id of
\* the signed-in user, and a submit with nobody signed in or with an empty
\* amount or category writes nothing and leaves the fields of the form as
\* they are.
C21_ScopedToCurrentUser ==
    /\ [](SubscriptionsOfOwnUser)
    /\ [][OpensForSignedInUser /\ CreatesForSignedInUser /\ RejectedSubmitKeepsForm]_vars

\* A document of each user is stored, the Dashboard listens to the query of
\* the signed-in user, and the latest submit was refused with the fields
\* filled in part.
C21_Witness ==
    /\ Len(store) = 2
    /\ store[1].userId # store[2].userId
    /\ authUser # NoUser
    /\ subs["Dashboard"] = {authUser}
    /\ alerted = "Amount and category required!"
    /\ form.amount # "" /\ form.category = ""

\* C27: the week selected in the Dashboard is empty or one of the week
\* labels of the records of the latest snapshot.
C27_SelectedWeekAvailable ==
    selectedWeek = <<>> \/ selectedWeek \in Range(allWeeks(dashboardExpenses))

\* C28: the list of available weeks is in ascending order of the Mondays
\* that its labels name, so that no label is listed twice, and from every
\* listed week but the last the next-week button selects a later week.
C28_WeeksOnceAscending ==
    /\ \A i, j \in 1..Len(allWeeks(dashboardExpenses)) :
          i < j => StartOfLabel(allWeeks(dashboardExpenses)[i]).day
                      < StartOfLabel(allWeeks(dashboardExpenses)[j]).day
    /\ \A i \in 1..(Len(allWeeks(dashboardExpenses)) - 1) :
          StartOfLabel(allWeeks(dashboardExpenses)[i]).day
              < StartOfLabel(NextWeekOf(allWeeks(dashboardExpenses),
                                        allWeeks(dashboardExpenses)[i])).day

\* C29: in month mode the selected month is empty or one of the months
\* that have a record in the selected month-year.
C29_SelectedMonthAvailable ==
    viewMode = "month" =>
        \/ selectedMonth = ""
        \/ selectedMonth \in Range(getAvailableMonthsInYear(dashboardExpenses, selectedMonthYear))

====
